---- MODULE Spec2Model ----
(***************************************************************************)
(* The Pokemon collection service of src/index.js: seven Express routes,   *)
(* each an async handler that parses its parameters, awaits one call on    *)
(* the mongoose model `pokemon` and answers from the result.  The state is *)
(* the collection, the handlers in flight, and an observer's record of the *)
(* exchanges completed so far.                                             *)
(***************************************************************************)
EXTENDS Integers, Sequences, FiniteSets, TLC

VARIABLES
  store,   \* the documents of the collection, in the store's natural order
  reqs,    \* per connection: the handler invocation in flight or just answered
  seed,    \* the documents the collection held when the service connected
  hist,    \* observer: the exchange completed last
  scen     \* observer: progress of a create / get / delete / get sequence on one id

vars == <<store, reqs, seed, hist, scen>>

----------------------------------------------------------------------------
(* Bounds *)

MaxStore == 2     \* creates are accepted while the collection holds fewer documents
MaxSeed == 45     \* largest seeded collection of the pagination specification

----------------------------------------------------------------------------
(* Values *)

limit == 20

Ids == {1, 2}

NameA == [english |-> <<"A", "b">>, french |-> <<"b">>, japanese |-> <<>>, chinese |-> <<>>]
NameB == [english |-> <<"a">>, french |-> <<>>, japanese |-> <<>>, chinese |-> <<>>]
Names == {NameA, NameB}

Records == [id : Ids, name : Names]

\* A query or path parameter: absent (undefined) or a string of characters.
Absent == [present |-> FALSE, text |-> <<>>]
Str(t) == [present |-> TRUE, text |-> t]

\* A request body: the fields it carries, and whether the schema's validators accept it.
Body(f, ok) == [fields |-> f, valid |-> ok]
NoBody == Body(<<>>, TRUE)

PostBodies == {Body(r, TRUE) : r \in Records} \cup {Body([id |-> 1, name |-> NameA], FALSE)}
PutBodies == {Body([name |-> n], TRUE) : n \in Names} \cup {Body([name |-> NameA], FALSE)}

RawIds == {Str(<<"1">>), Str(<<"2">>), Str(<<"2", "x">>), Str(<<"a", "1">>)}
RawPages == {Absent, Str(<<"2">>), Str(<<"-", "1">>)}
RawNames == {Absent, Str(<<>>), Str(<<" ", " ">>), Str(<<" ", "B">>), Str(<<"(">>)}
SeedPages == {Absent, Str(<<"a">>), Str(<<"0">>), Str(<<"1">>), Str(<<"2">>), Str(<<"3">>),
              Str(<<"4">>), Str(<<"-", "1">>), Str(<<"2", "x">>), Str(<<" ", "3">>)}

----------------------------------------------------------------------------
(* parseInt(text, 10) *)

NaN == [nan |-> TRUE, val |-> 0]
Num(n) == [nan |-> FALSE, val |-> n]

Digits == <<"0", "1", "2", "3", "4", "5", "6", "7", "8", "9">>
IsDigit(c) == \E d \in 1..10 : Digits[d] = c
DigitVal(c) == (CHOOSE d \in 1..10 : Digits[d] = c) - 1
IsSpace(c) == c = " "

RECURSIVE TrimStart(_)
TrimStart(t) == IF t # <<>> /\ IsSpace(Head(t)) THEN TrimStart(Tail(t)) ELSE t

RECURSIVE TrimEnd(_)
TrimEnd(t) ==
  IF t # <<>> /\ IsSpace(t[Len(t)]) THEN TrimEnd(SubSeq(t, 1, Len(t) - 1)) ELSE t

Trim(t) == TrimEnd(TrimStart(t))

RECURSIVE ParseDigits(_, _, _)
ParseDigits(t, acc, seen) ==
  IF t # <<>> /\ IsDigit(Head(t))
    THEN ParseDigits(Tail(t), acc * 10 + DigitVal(Head(t)), TRUE)
    ELSE IF seen THEN Num(acc) ELSE NaN

ParseInt(v) ==
  LET t == TrimStart(v.text)
      signed == t # <<>> /\ Head(t) \in {"-", "+"}
      r == ParseDigits(IF signed THEN Tail(t) ELSE t, 0, FALSE)
  IN  IF ~v.present \/ r.nan THEN NaN
      ELSE IF signed /\ Head(t) = "-" THEN Num(0 - r.val) ELSE r

----------------------------------------------------------------------------
(* The store: the mongoose model's queries on the collection *)

Null == [found |-> FALSE, doc |-> <<>>]
Doc(d) == [found |-> TRUE, doc |-> d]

\* { id: pokeId } matches a document; NaN equals no stored id.
Matches(d, pid) == ~pid.nan /\ d.id = pid.val

Hits(st, pid) == {i \in 1..Len(st) : Matches(st[i], pid)}
First(st, pid) == CHOOSE i \in Hits(st, pid) : \A j \in Hits(st, pid) : i <= j
Count(st, pid) == Cardinality(Hits(st, pid))

Min(a, b) == IF a < b THEN a ELSE b

Find(st) == st

\* FindPage without .limit(limit).
FindPageNoLimit(st, skip, lim) == SubSeq(st, skip + 1, Len(st))

FindPage(st, skip, lim) == SubSeq(st, skip + 1, Min(Len(st), skip + lim))

FindOne(st, pid) == IF Hits(st, pid) = {} THEN Null ELSE Doc(st[First(st, pid)])

Remove(st, i) == SubSeq(st, 1, i - 1) \o SubSeq(st, i + 1, Len(st))

\* The fields of the update replace those of the document; the others stay.
Apply(d, f) == [k \in DOMAIN d |-> IF k \in DOMAIN f THEN f[k] ELSE d[k]]

\* The schema's validators on a document to create or an update to apply.
Validate(body) == body.valid

Lower(c) == IF c = "A" THEN "a" ELSE IF c = "B" THEN "b" ELSE c
LowerAll(t) == [i \in 1..Len(t) |-> Lower(t[i])]

\* new RegExp(q, "i") throws on a pattern that is no regular expression.
ValidPattern(q) == \A i \in 1..Len(q) : q[i] # "("

\* regex.test(text) for a pattern of literal characters, case-insensitive.
Test(q, text) ==
  \E k \in 0..(Len(text) - Len(q)) :
     LowerAll(SubSeq(text, k + 1, k + Len(q))) = LowerAll(q)

NameMatches(d, q) ==
  \/ Test(q, d.name.english)
  \/ Test(q, d.name.french)
  \/ Test(q, d.name.japanese)
  \/ Test(q, d.name.chinese)

FindByName(st, q) == SelectSeq(st, LAMBDA d : NameMatches(d, q))

----------------------------------------------------------------------------
(* Responses *)

Array(a) == [array |-> a]
ErrorBody(m) == [error |-> m]
InternalError == ErrorBody("Internal Server Error")
NotFound == ErrorBody("Pokemon not found")
NameRequired == ErrorBody("Query param 'name' is required")

\* What a handler leaves behind: the collection and the response.
Reply(st, status, body) == [st |-> st, status |-> status, reply |-> body]

----------------------------------------------------------------------------
(* What the awaited store call does: it resolves, or it rejects with an    *)
(* error.  `fail` is a rejection for a reason of the store's own           *)
(* (connection lost, server error).                                        *)

NoError == [threw |-> FALSE, message |-> ""]
Thrown(m) == [threw |-> TRUE, message |-> m]
Messages == {"store failure", "validation failed", "skip must be non-negative"}

StoreError(r, fail) ==
  IF fail THEN Thrown("store failure")
  ELSE IF r.route \in {"create", "update"} /\ ~Validate(r.body)
    THEN Thrown("validation failed")
  ELSE IF r.route = "page" /\ r.skip < 0
    THEN Thrown("skip must be non-negative")
  ELSE NoError

\* FindOneAndUpdate with {upsert: true}.
FindOneAndUpdateUpsert(st, pokeId, f) ==
  IF Hits(st, pokeId) = {}
    THEN LET d == [id |-> pokeId.val, name |-> f.name]
         IN  [st |-> Append(st, d), res |-> Doc(d)]
  ELSE LET i == First(st, pokeId)
           d == Apply(st[i], f)
       IN  [st |-> [st EXCEPT ![i] = d], res |-> Doc(d)]

\* findOneAndUpdate(filter, update, {new: true, runValidators: true}): no upsert.
FindOneAndUpdate(st, pokeId, f) ==
  IF Hits(st, pokeId) = {} THEN [st |-> st, res |-> Null]
  ELSE LET i == First(st, pokeId)
           d == Apply(st[i], f)
       IN  [st |-> [st EXCEPT ![i] = d], res |-> Doc(d)]

\* FindOneAndDelete as a read followed by a separate delete that has not run yet.
FindOneAndDeleteKeep(st, pokeId) ==
  IF Hits(st, pokeId) = {} THEN [st |-> st, res |-> Null]
  ELSE [st |-> st, res |-> Doc(st[First(st, pokeId)])]

\* findOneAndDelete removes the first matching document and returns it.
FindOneAndDelete(st, pokeId) ==
  IF Hits(st, pokeId) = {} THEN [st |-> st, res |-> Null]
  ELSE LET i == First(st, pokeId)
       IN  [st |-> Remove(st, i), res |-> Doc(st[i])]

----------------------------------------------------------------------------
(* The handlers, from the point where the awaited store call settles:      *)
(* `err` is what the call threw, if it did.                                *)

ListOutcome(st, err) ==
  IF err.threw THEN Reply(st, 500, InternalError)
  ELSE Reply(st, 200, Array(Find(st)))

\* page = parseInt(req.query.page, 10) || 1
PageOf(raw) ==
  LET p == ParseInt(raw) IN IF p.nan \/ p.val = 0 THEN 1 ELSE p.val

SkipOf(page) == (page - 1) * limit

PageOutcome(st, page, skip, err) ==
  IF err.threw THEN Reply(st, 500, InternalError)
  ELSE LET pokemons == FindPage(st, skip, limit)
       IN  Reply(st, 200,
                 [page |-> page, limit |-> limit,
                  count |-> Len(pokemons), data |-> pokemons])

\* QueryOf without .trim().
QueryOfNoTrim(raw) == IF raw.present THEN raw.text ELSE <<>>

\* q = (req.query.name || "").trim()
QueryOf(raw) == Trim(IF raw.present THEN raw.text ELSE <<>>)

SearchOutcome(st, q, err) ==
  IF err.threw THEN Reply(st, 500, InternalError)
  ELSE Reply(st, 200, Array(FindByName(st, q)))

CreateOutcome(st, body, err) ==
  IF err.threw THEN Reply(st, 400, ErrorBody(err.message))
  ELSE LET created == body.fields
       IN  Reply(Append(st, created), 201, created)

\* GetOutcome without the test of poke.
GetOutcomeNoCheck(st, pokeId, err) ==
  IF err.threw THEN Reply(st, 500, InternalError)
  ELSE Reply(st, 200, FindOne(st, pokeId).doc)

GetOutcome(st, pokeId, err) ==
  IF err.threw THEN Reply(st, 500, InternalError)
  ELSE LET poke == FindOne(st, pokeId)
       IN  IF poke.found THEN Reply(st, 200, poke.doc)
           ELSE Reply(st, 404, NotFound)

\* UpdateOutcome with the catch block of the read routes.
UpdateOutcomeCatch500(st, pokeId, body, err) ==
  IF err.threw THEN Reply(st, 500, InternalError)
  ELSE LET u == FindOneAndUpdate(st, pokeId, body.fields)
       IN  IF ~u.res.found THEN Reply(u.st, 404, NotFound)
           ELSE Reply(u.st, 200, u.res.doc)

UpdateOutcome(st, pokeId, body, err) ==
  IF err.threw THEN Reply(st, 400, ErrorBody(err.message))
  ELSE LET u == FindOneAndUpdate(st, pokeId, body.fields)
       IN  IF ~u.res.found THEN Reply(u.st, 404, NotFound)
           ELSE Reply(u.st, 200, u.res.doc)

DeleteOutcome(st, pokeId, err) ==
  IF err.threw THEN Reply(st, 500, InternalError)
  ELSE LET d == FindOneAndDelete(st, pokeId)
       IN  IF d.res.found
             THEN Reply(d.st, 200,
                        [message |-> "Pokemon deleted successfully", id |-> pokeId.val])
             ELSE Reply(d.st, 404, NotFound)

----------------------------------------------------------------------------
(* Handler invocations *)

Conns == DOMAIN reqs

NoQuery == [name |-> Absent, page |-> Absent]

\* req.query, req.params.id and req.body; the handler's locals pokeId, page, skip
\* and q; the store calls issued and the responses sent; the response; and
\* whether the handler went through its catch block.
Idle ==
  [pc |-> "idle", route |-> "none", query |-> NoQuery, id |-> Absent, body |-> NoBody,
   pokeId |-> NaN, page |-> 0, skip |-> 0, q |-> <<>>,
   calls |-> 0, sent |-> 0, status |-> 0, reply |-> <<>>, threw |-> FALSE]

\* A handler suspended at its await, its store call issued.
Awaiting(route) == [Idle EXCEPT !.pc = "await", !.route = route, !.calls = 1]

\* A handler that has sent its response.
Answered(r, o, err) ==
  [r EXCEPT !.pc = "done", !.sent = r.sent + 1,
            !.status = o.status, !.reply = o.reply, !.threw = err.threw]

\* A connection carries one request at a time.
Free(c) == reqs[c].pc \in {"idle", "done"}

\* Observer of the create / get / delete / get sequence: step k means the last k
\* exchanges were its first k requests on scen.id, none of them thrown at.
ScenNext(sc, r) ==
  IF r.route = "create" /\ r.status = 201
    THEN [step |-> 1, id |-> r.reply.id]
  ELSE IF sc.step = 1 /\ r.route = "get" /\ ~r.threw /\ r.pokeId = Num(sc.id)
    THEN [step |-> 2, id |-> sc.id]
  ELSE IF sc.step = 2 /\ r.route = "delete" /\ ~r.threw /\ r.pokeId = Num(sc.id)
    THEN [step |-> 3, id |-> sc.id]
  ELSE [step |-> 0, id |-> 0]

Observed(r) == hist' = r /\ scen' = ScenNext(scen, r)

Outcome(r, st, err) ==
  CASE r.route = "list" -> ListOutcome(st, err)
    [] r.route = "page" -> PageOutcome(st, r.page, r.skip, err)
    [] r.route = "search" -> SearchOutcome(st, r.q, err)
    [] r.route = "create" -> CreateOutcome(st, r.body, err)
    [] r.route = "get" -> GetOutcome(st, r.pokeId, err)
    [] r.route = "update" -> UpdateOutcome(st, r.pokeId, r.body, err)
    [] r.route = "delete" -> DeleteOutcome(st, r.pokeId, err)

----------------------------------------------------------------------------
(* Actions *)

\* GET /pokemons
ListAll(c) ==
  /\ Free(c)
  /\ reqs' = [reqs EXCEPT ![c] = Awaiting("list")]
  /\ UNCHANGED <<store, seed, hist, scen>>

\* GET /pokemons/20
ListPage(c, query) ==
  /\ Free(c)
  /\ reqs' = [reqs EXCEPT ![c] =
                [Awaiting("page") EXCEPT !.query = query,
                                         !.page = PageOf(query.page),
                                         !.skip = SkipOf(PageOf(query.page))]]
  /\ UNCHANGED <<store, seed, hist, scen>>

\* GET /pokemons/search: a blank name is answered before the store is called, and
\* so is, from the catch block, a name that RegExp rejects.
Search(c, query) ==
  /\ Free(c)
  /\ LET q == QueryOf(query.name)
         r == [Awaiting("search") EXCEPT !.query = query, !.q = q]
         early == [r EXCEPT !.calls = 0]
     IN  IF q = <<>>
           THEN /\ reqs' = [reqs EXCEPT ![c] =
                              Answered(early, Reply(store, 400, NameRequired), NoError)]
                /\ Observed(reqs'[c])
         ELSE IF ~ValidPattern(q)
           THEN /\ reqs' = [reqs EXCEPT ![c] =
                              Answered(early, SearchOutcome(store, q, Thrown("invalid pattern")),
                                       Thrown("invalid pattern"))]
                /\ Observed(reqs'[c])
         ELSE /\ reqs' = [reqs EXCEPT ![c] = r]
              /\ UNCHANGED <<hist, scen>>
  /\ UNCHANGED <<store, seed>>

\* POST /pokemons
Create(c, body) ==
  /\ Free(c)
  /\ Len(store) < MaxStore
  /\ reqs' = [reqs EXCEPT ![c] = [Awaiting("create") EXCEPT !.body = body]]
  /\ UNCHANGED <<store, seed, hist, scen>>

\* GET /pokemons/:id
GetById(c, id) ==
  /\ Free(c)
  /\ reqs' = [reqs EXCEPT ![c] =
                [Awaiting("get") EXCEPT !.id = id, !.pokeId = ParseInt(id)]]
  /\ UNCHANGED <<store, seed, hist, scen>>

\* PUT /pokemons/:id
Update(c, id, body) ==
  /\ Free(c)
  /\ reqs' = [reqs EXCEPT ![c] =
                [Awaiting("update") EXCEPT !.id = id, !.pokeId = ParseInt(id),
                                           !.body = body]]
  /\ UNCHANGED <<store, seed, hist, scen>>

\* DELETE /pokemons/:id
Delete(c, id) ==
  /\ Free(c)
  /\ reqs' = [reqs EXCEPT ![c] =
                [Awaiting("delete") EXCEPT !.id = id, !.pokeId = ParseInt(id)]]
  /\ UNCHANGED <<store, seed, hist, scen>>

\* The awaited store call settles, atomically in the store, and the handler
\* runs on to its response.
Settle(c) ==
  /\ reqs[c].pc = "await"
  /\ \E fail \in BOOLEAN :
       LET err == StoreError(reqs[c], fail)
           o == Outcome(reqs[c], store, err)
       IN  /\ store' = o.st
           /\ reqs' = [reqs EXCEPT ![c] = Answered(reqs[c], o, err)]
           /\ Observed(reqs'[c])
  /\ UNCHANGED seed

\* One DELETE per connection.
DeleteOnce(c, id) == reqs[c].pc = "idle" /\ Delete(c, id)

----------------------------------------------------------------------------
(* Specifications *)

Queries == [name : RawNames, page : RawPages]
SeedQueries == [name : {Absent}, page : SeedPages]

RECURSIVE Stores(_)
Stores(n) == IF n = 0 THEN {<<>>}
             ELSE Stores(n - 1) \cup {Append(st, d) : st \in Stores(n - 1), d \in Records}

SeedStore(n) == [i \in 1..n |-> [id |-> i, name |-> IF i % 2 = 1 THEN NameA ELSE NameB]]

NoScen == [step |-> 0, id |-> 0]

\* One connection, requests one after the other, on a collection that starts empty.
Init ==
  /\ store = <<>>
  /\ seed = <<>>
  /\ reqs = [c \in {1} |-> Idle]
  /\ hist = Idle
  /\ scen = NoScen

Next ==
  \/ \E c \in Conns : ListAll(c)
  \/ \E c \in Conns, query \in Queries : ListPage(c, query)
  \/ \E c \in Conns, query \in Queries : Search(c, query)
  \/ \E c \in Conns, body \in PostBodies : Create(c, body)
  \/ \E c \in Conns, id \in RawIds : GetById(c, id)
  \/ \E c \in Conns, id \in RawIds, body \in PutBodies : Update(c, id, body)
  \/ \E c \in Conns, id \in RawIds : Delete(c, id)
  \/ \E c \in Conns : Settle(c)

Spec == Init /\ [][Next]_vars

\* Paginated reads of a seeded collection of up to MaxSeed documents.
InitPage ==
  /\ \E n \in 0..MaxSeed : store = SeedStore(n)
  /\ seed = store
  /\ reqs = [c \in {1} |-> Idle]
  /\ hist = Idle
  /\ scen = NoScen

NextPage ==
  \/ \E c \in Conns, query \in SeedQueries : ListPage(c, query)
  \/ \E c \in Conns : Settle(c)

SpecPage == InitPage /\ [][NextPage]_vars

\* Two connections, each with one DELETE, on any collection the creates can build.
InitConc ==
  /\ store \in Stores(MaxStore)
  /\ seed = store
  /\ reqs = [c \in {1, 2} |-> Idle]
  /\ hist = Idle
  /\ scen = NoScen

NextConc ==
  \/ \E c \in Conns, id \in RawIds : DeleteOnce(c, id)
  \/ \E c \in Conns : Settle(c)

SpecConc == InitConc /\ [][NextConc]_vars

----------------------------------------------------------------------------
(* Properties *)

\* Connection c's handler gets its store call's result and answers.
Completes(c) == reqs[c].pc = "await" /\ reqs'[c].pc = "done"

NoMatch(st, pokeId) == \A i \in 1..Len(st) : ~Matches(st[i], pokeId)

StoreFailed(r) == r.threw /\ r.reply \in {InternalError, ErrorBody("store failure")}

\* C1: a DELETE answered 200, followed at once by a DELETE of the same id that the
\* store does not fail, is followed by 404.
C1_DeleteTwice ==
  [][\A c \in Conns :
       (/\ Completes(c)
        /\ reqs[c].route = "delete"
        /\ hist.route = "delete" /\ hist.status = 200
        /\ hist.pokeId = reqs[c].pokeId
        /\ ~reqs'[c].threw)
       => reqs'[c].status = 404]_vars

C3_RoundTrip ==
  [][\A c \in Conns :
       (/\ Completes(c)
        /\ reqs[c].route = "get"
        /\ hist.route = "create" /\ hist.status = 201
        /\ reqs[c].pokeId = Num(hist.reply.id)
        /\ ~reqs'[c].threw)
       => /\ reqs'[c].status = 200
          /\ reqs'[c].reply = hist.reply]_vars

\* C4: after POST X answered 201, the GET X that follows is answered 200 with a
\* record of id X, the DELETE X after it 200 with the message and id X, and the GET
\* X after that 404 (the store failing none of them).
C4_CreateGetDeleteGet ==
  [][\A c \in Conns :
       (/\ Completes(c)
        /\ reqs[c].pokeId = Num(scen.id)
        /\ ~reqs'[c].threw)
       => /\ (scen.step = 1 /\ reqs[c].route = "get")
               => reqs'[c].status = 200 /\ reqs'[c].reply.id = scen.id
          /\ (scen.step = 2 /\ reqs[c].route = "delete")
               => /\ reqs'[c].status = 200
                  /\ reqs'[c].reply =
                       [message |-> "Pokemon deleted successfully", id |-> scen.id]
          /\ (scen.step = 3 /\ reqs[c].route = "get")
               => reqs'[c].status = 404]_vars

LastPage(st) == (Len(st) + 19) \div 20

\* C6: in a 200 response of the paginated list, count is the length of data and
\* at most 20, and for a page beyond the last non-empty one count is 0 and data
\* is empty.
C6_PageCount ==
  \A c \in Conns :
    LET r == reqs[c]
    IN  (r.pc = "done" /\ r.route = "page" /\ r.status = 200)
          => /\ r.reply.count = Len(r.reply.data)
             /\ r.reply.count <= 20
             /\ r.reply.page > LastPage(store)
                  => r.reply.count = 0 /\ r.reply.data = <<>>

C6_Witness ==
  \E c \in Conns :
    /\ reqs[c].pc = "done" /\ reqs[c].route = "page" /\ reqs[c].status = 200
    /\ Len(store) > 40
    /\ reqs[c].reply.page > LastPage(store)
    /\ reqs[c].reply.count = 0

\* C7: the page of the paginated list is an integer >= 1, the requested one when
\* that parses to an integer >= 1 and 1 otherwise, and the skip is never negative.
C7_PageAtLeastOne ==
  \A c \in Conns :
    LET r == reqs[c]
        p == ParseInt(r.query.page)
    IN  r.route = "page"
          => /\ r.page >= 1
             /\ r.skip >= 0
             /\ r.page = (IF ~p.nan /\ p.val >= 1 THEN p.val ELSE 1)

\* The name parameter is absent, empty or made of spaces only.
Blank(v) == ~v.present \/ \A i \in 1..Len(v.text) : v.text[i] = " "

\* C8: a search whose name is absent, empty or whitespace-only is answered 400
\* "Query param 'name' is required" without a store call, whatever the other
\* query parameters and the collection.
C8_BlankName ==
  \A c \in Conns :
    LET r == reqs[c]
    IN  (r.route = "search" /\ Blank(r.query.name))
          => /\ r.pc = "done"
             /\ r.status = 400
             /\ r.reply = NameRequired
             /\ r.calls = 0 /\ r.sent = 1

C8_Witness ==
  \E c \in Conns :
    /\ reqs[c].pc = "done" /\ reqs[c].route = "search"
    /\ reqs[c].query.name = Str(<<" ", " ">>)
    /\ reqs[c].query.page # Absent
    /\ reqs[c].status = 400
    /\ store # <<>>

\* The path value starts with a character that begins no integer.
NonNumeric(v) ==
  ~v.present \/ v.text = <<>> \/ ~(IsDigit(Head(v.text)) \/ Head(v.text) \in {"-", "+", " "})

BothDeleted(x) ==
  \A c \in Conns :
    /\ reqs[c].pc = "done" /\ reqs[c].route = "delete"
    /\ reqs[c].pokeId = Num(x) /\ ~reqs[c].threw

\* C10: each handler issues at most one store call, and of two DELETEs of the same
\* id on a collection holding exactly one record of that id, interleaved in any
\* way, one is answered 200 and the other 404, and that record alone is removed.
C10_ConcurrentDelete ==
  /\ \A c \in Conns : reqs[c].calls <= 1
  /\ \A x \in Ids :
       (BothDeleted(x) /\ Count(seed, Num(x)) = 1)
         => /\ Cardinality({c \in Conns : reqs[c].status = 200}) = 1
            /\ Cardinality({c \in Conns : reqs[c].status = 404}) = 1
            /\ Count(store, Num(x)) = 0
            /\ Len(store) = Len(seed) - 1

C10_Witness ==
  \E x \in Ids :
    /\ BothDeleted(x)
    /\ Count(seed, Num(x)) = 1
    /\ Len(seed) = 2

====
